---- MODULE Spec2Model ----
(***************************************************************************)
(* State-machine model of the AlgoForge front-end views:                   *)
(*   - Blog       (src/unnamed/part_001): filterable list, memoised view,  *)
(*                 interaction counters, simulated load                    *)
(*   - QuizStart  (src/src/components/QuizStart.jsx): topic carousel       *)
(*   - Signup     (.../src/pages/Signup.jsx): password rule flags, form    *)
(*                 submission                                              *)
(*   - Contribute (src/unnamed/part_000): repository statistics            *)
(*                                                                         *)
(* Text is a sequence of character codes (ASCII), so that toLowerCase,     *)
(* String.prototype.includes and the regular-expression character classes  *)
(* are modelled by what they do on the characters.  In the comments the    *)
(* codes are spelled out: 65 = "A", 66 = "B", 67 = "C", 90 = "Z",          *)
(* 97 = "a", 98 = "b", 99 = "c", 122 = "z", 48 = "0", 57 = "9",            *)
(* 33 = "!", 42 = "*", 32 = " ", 45 = "-", 91 = "[", 123 = "{".            *)
(***************************************************************************)
EXTENDS Integers, Sequences, FiniteSets, TLC

VARIABLES
  \* ---- Blog (src/unnamed/part_001) ----
  blogPostsData,        \* the imported ../data/blogPosts.json (fixed per run)
  blogMounted,          \* whether the Blog component is mounted
  loadTimer,            \* the 300 ms setTimeout: "pending" | "fired" | "cleared"
  selectedCategory,     \* useState("All")
  searchTerm,           \* useState("")
  blogPosts,            \* useState([])
  blogPostsRef,         \* identity of the blogPosts array: "initial" | "data"
  isLoading,            \* useState(true)
  performanceMetrics,   \* useState({searchOperations, filterOperations, pageLoadTime, interactions})
  filteredPosts,        \* the value cached by useMemo
  filterRuns,           \* executions of the useMemo callback in this lifetime (history)
  blogEvent,            \* the last Blog event processed (history)
  \* ---- QuizStart (src/src/components/QuizStart.jsx) ----
  topics,               \* the topics prop
  topicPage,            \* useState(0)
  displayedTopics,      \* the slice rendered in the carousel
  quizEvent,            \* the last QuizStart event and the page it found (history)
  selectedTopic,        \* the selectedTopic prop, "" when unset
  selectedDifficulty,   \* the selectedDifficulty prop, "" when unset
  timedMode,            \* useState(false)
  quizError,            \* QuizStart's useState("") error
  onStartQuizCalls,     \* number of calls of the onStartQuiz prop (history)
  onStartQuizArgs,      \* the arguments of the last onStartQuiz call (history)
  \* ---- Signup (src/pages/Signup.jsx) ----
  formData,             \* useState({firstName, lastName, email, password, confirmPassword, agreeToTerms})
  passwordChecks,       \* checkPasswordRules(formData.password), computed at render
  signupIsLoading,      \* Signup's useState(false) isLoading
  signupError,          \* Signup's useState("") error
  localStorage,         \* window.localStorage: a function from the keys written to their values
  location,             \* the route shown: "/signup" until navigate("/")
  signupRequest,        \* the authService.signup call in flight, if any
  effectLog,            \* the calls made on the outside world, in order (history)
  signupAnswer,         \* how the last authService.signup call settled (history)
  signupEvent,          \* the last Signup event processed (history)
  signupMounted,        \* whether a Signup instance is mounted
  lateRequests,         \* authService.signup calls in flight whose instance was torn down
  googlePending,        \* the credentials of the authService.googleLogin calls in flight
  googleCalls,          \* number of authService.googleLogin calls made (history)
  googleDecoded,        \* what the last handleGoogleSuccess wrote to the console (history)
  lastAlert,            \* the text of the last alert shown
  \* ---- Contribute (src/unnamed/part_000) ----
  repoStats,            \* useState({stars, forks, issues, contributors})
  statsFetch,           \* where fetchRepoStats stands: "fetching" | "parsing" | "done"
  statsResponse,        \* what the GitHub request answered (history)
  contributeMounted,    \* whether the Contribute component is mounted
  statsLateUpdate       \* setRepoStats was called after the unmount (history)

blogVars == <<blogPostsData, blogMounted, loadTimer, selectedCategory, searchTerm,
              blogPosts, blogPostsRef, isLoading, performanceMetrics, filteredPosts,
              filterRuns, blogEvent>>
quizVars == <<topics, topicPage, displayedTopics, quizEvent>>
startVars == <<selectedTopic, selectedDifficulty, timedMode, quizError,
               onStartQuizCalls, onStartQuizArgs>>
signupVars == <<formData, passwordChecks, signupIsLoading, signupError, localStorage,
                location, signupRequest, effectLog, signupAnswer, signupEvent,
                signupMounted, lateRequests,
                googlePending, googleCalls, googleDecoded, lastAlert>>
teardownVars == <<signupMounted, lateRequests>>
googleVars == <<googlePending, googleCalls, googleDecoded, lastAlert>>
contribVars == <<repoStats, statsFetch, statsResponse, contributeMounted,
                 statsLateUpdate>>
vars == <<blogVars, quizVars, startVars, signupVars, contribVars>>

(***************************************************************************)
(* Bounds of the model.                                                    *)
(***************************************************************************)
MaxPosts == 3
MaxInteractions == 3
MaxTopics == 15
MaxPwLen == 2
MaxSubmits == 2
MaxStat == 2
MaxStartTopics == 3
MaxStarts == 2
MaxGoogleCalls == 2

(***************************************************************************)
(* JavaScript string helpers.                                              *)
(***************************************************************************)
\* String.prototype.toLowerCase on ASCII text: "A".."Z" (65..90) map to
\* "a".."z" (97..122), every other character is kept.
toLowerCase(s) ==
  [i \in 1..Len(s) |-> IF s[i] >= 65 /\ s[i] <= 90 THEN s[i] + 32 ELSE s[i]]

\* String.prototype.includes: sub occurs in s at some offset.
includes(s, sub) ==
  \E off \in 0..(Len(s) - Len(sub)) :
    \A k \in 1..Len(sub) : s[off + k] = sub[k]

\* Array.prototype.some over the tags with the callback of line 44.
tagsSome(tags, searchLower) ==
  \E t \in 1..Len(tags) : includes(toLowerCase(tags[t]), searchLower)

(***************************************************************************)
(* Blog: the pure filter (part_001 lines 35-47).                           *)
(***************************************************************************)
\* variant of line 38 without the "All" case
matchesCategoryNoAll(post, category) ==
  post.category = category

\* line 38
matchesCategory(post, category) ==
  category = "All" \/ post.category = category

\* variant of lines 41-45 that does not look at the description
matchesSearchNoDescription(post, searchLower) ==
  \/ includes(toLowerCase(post.title), searchLower)
  \/ tagsSome(post.tags, searchLower)

\* lines 41-45
matchesSearch(post, searchLower) ==
  \/ includes(toLowerCase(post.title), searchLower)
  \/ includes(toLowerCase(post.description), searchLower)
  \/ tagsSome(post.tags, searchLower)

\* the callback given to posts.filter, lines 37-46
postMatches(post, category, searchLower) ==
  IF ~matchesCategory(post, category) THEN FALSE
  ELSE IF searchLower = <<>> THEN TRUE
  ELSE matchesSearch(post, searchLower)

\* Array.prototype.filter with that callback: kept elements in array order.
RECURSIVE arrayFilter(_, _, _)
arrayFilter(posts, category, searchLower) ==
  IF posts = <<>> THEN <<>>
  ELSE LET rest == arrayFilter(Tail(posts), category, searchLower)
       IN IF postMatches(Head(posts), category, searchLower)
          THEN <<Head(posts)>> \o rest
          ELSE rest

\* a filter that collects the kept elements by unshift (newest first)
RECURSIVE arrayFilterReversed(_, _, _)
arrayFilterReversed(posts, category, searchLower) ==
  IF posts = <<>> THEN <<>>
  ELSE LET rest == arrayFilterReversed(Tail(posts), category, searchLower)
       IN IF postMatches(Head(posts), category, searchLower)
          THEN rest \o <<Head(posts)>>
          ELSE rest

\* variant of lines 35-47 returning the kept posts newest first
pureFilterPostsReversed(posts, category, search) ==
  arrayFilterReversed(posts, category, toLowerCase(search))

\* lines 35-47: (search || "").toLowerCase(), then posts.filter(...)
pureFilterPosts(posts, category, search) ==
  arrayFilter(posts, category, toLowerCase(search))

(***************************************************************************)
(* Blog: data the view is run on.                                          *)
(***************************************************************************)
\* line 105
categories ==
  <<"All", "Theory", "Sorting", "Graphs", "Data Structures", "Search", "Optimization">>

\* Posts the imported data file may hold.
\*   1: title "Ab", description "c",  tags ["B"],        category "Sorting", featured
\*   2: title "ca", description "",   tags ["ab", "C"],  category "Graphs"
\*   3: title "b",  description "BA", tags [],           category "Sorting"
\*   4: title "[",  description "a",  tags ["a"],        category "sorting"
PostPool ==
  { [id |-> 1, title |-> <<65, 98>>, description |-> <<99>>,
     tags |-> << <<66>> >>, category |-> "Sorting", featured |-> TRUE],
    [id |-> 2, title |-> <<99, 97>>, description |-> <<>>,
     tags |-> << <<97, 98>>, <<67>> >>, category |-> "Graphs", featured |-> FALSE],
    [id |-> 3, title |-> <<98>>, description |-> <<66, 65>>,
     tags |-> <<>>, category |-> "Sorting", featured |-> FALSE],
    [id |-> 4, title |-> <<91>>, description |-> <<97>>,
     tags |-> << <<97>> >>, category |-> "sorting", featured |-> FALSE] }

PostLists ==
  UNION { [1..n -> PostPool] : n \in 0..MaxPosts }

\* Texts the user types into the search box: "", "a", "AB", "ba", "c", "{".
SearchTerms ==
  { <<>>, <<97>>, <<65, 66>>, <<98, 97>>, <<99>>, <<123>> }

Range(s) == { s[i] : i \in 1..Len(s) }

(***************************************************************************)
(* Blog: hooks.                                                            *)
(***************************************************************************)
\* variant of the dependency list of line 122 without searchTerm
filteredPostsDepsNoSearch(ref, category, search) ==
  <<ref, category>>

\* the dependency list of useMemo, line 122
filteredPostsDeps(ref, category, search) ==
  <<ref, category, search>>

\* variant of useMemo without a dependency list: the callback runs at every
\* render
memoStaleAlways(previous, next) ==
  TRUE

\* useMemo, lines 110-122: the callback runs again when a dependency differs
\* from the one of the previous render
memoStale(previous, next) ==
  previous # next

\* variant of the dependency list of line 131 without searchTerm
filterEffectDepsNoSearch(ref, category, search, loading) ==
  <<ref, category, loading>>

\* variant of the dependency list of line 131 without selectedCategory
filterEffectDepsNoCategory(ref, category, search, loading) ==
  <<ref, search, loading>>

\* the dependency list of the counting effect, line 131
filterEffectDeps(ref, category, search, loading) ==
  <<ref, category, search, loading>>

\* lines 55-60
initialMetrics ==
  [searchOperations |-> 0, filterOperations |-> 0,
   pageLoadTime |-> "null", interactions |-> 0]

\* One render of Blog with the given next state, followed by its effects:
\* useMemo (lines 110-122) recomputes the list when a dependency changed and
\* keeps the cached one otherwise; the effect of lines 125-131 runs when one
\* of its dependencies changed and counts a filter operation unless loading.
BlogRender(ref2, posts2, category2, search2, loading2, metrics2) ==
  /\ blogPostsRef' = ref2
  /\ blogPosts' = posts2
  /\ selectedCategory' = category2
  /\ searchTerm' = search2
  /\ isLoading' = loading2
  /\ filteredPosts' =
       IF filteredPostsDeps(ref2, category2, search2)
            # filteredPostsDeps(blogPostsRef, selectedCategory, searchTerm)
       THEN pureFilterPosts(posts2, category2, search2)
       ELSE filteredPosts
  /\ filterRuns' =
       IF memoStale(filteredPostsDeps(blogPostsRef, selectedCategory, searchTerm),
                    filteredPostsDeps(ref2, category2, search2))
       THEN filterRuns + 1
       ELSE filterRuns
  /\ performanceMetrics' =
       IF /\ filterEffectDeps(ref2, category2, search2, loading2)
               # filterEffectDeps(blogPostsRef, selectedCategory, searchTerm, isLoading)
          /\ ~loading2
       THEN [metrics2 EXCEPT !.filterOperations = @ + 1]
       ELSE metrics2

\* The state of a freshly mounted Blog after its first render and effects
\* (lines 51-60, 69-73, 110-131): the load timer is pending, the effect of
\* line 125 returned early because isLoading is true.
BlogFresh ==
  /\ blogMounted = TRUE
  /\ loadTimer = "pending"
  /\ selectedCategory = "All"
  /\ searchTerm = <<>>
  /\ blogPosts = <<>>
  /\ blogPostsRef = "initial"
  /\ isLoading = TRUE
  /\ performanceMetrics = initialMetrics
  /\ filteredPosts = pureFilterPosts(<<>>, "All", <<>>)
  /\ filterRuns = 1
  /\ blogEvent = "mount"

InitBlog ==
  /\ blogPostsData \in PostLists
  /\ BlogFresh

\* the setTimeout callback, lines 73-88: it runs when the timer is still
\* set, which the cleanup of line 91 rules out for an unmounted view
LoadTimerFires ==
  /\ loadTimer = "pending"
  /\ loadTimer' = "fired"
  /\ BlogRender("data", blogPostsData, selectedCategory, searchTerm, FALSE,
                [performanceMetrics EXCEPT !.pageLoadTime = "measured"])
  /\ blogEvent' = "load"
  /\ UNCHANGED <<blogPostsData, blogMounted>>
  /\ UNCHANGED <<quizVars, startVars, signupVars, contribVars>>

\* The search box and the category buttons exist only when the list is
\* loaded (lines 322-361).
FiltersShown == blogMounted /\ ~isLoading

\* variant of lines 134-155 that stores the matching posts with setBlogPosts
handleSearchStoringResult(term) ==
  /\ FiltersShown
  /\ performanceMetrics.interactions < MaxInteractions
  /\ BlogRender("searched", pureFilterPosts(blogPosts, selectedCategory, term),
                selectedCategory, term, isLoading,
                [performanceMetrics EXCEPT !.searchOperations = @ + 1,
                                           !.interactions = @ + 1])
  /\ blogEvent' = "search"
  /\ UNCHANGED <<blogPostsData, blogMounted, loadTimer>>
  /\ UNCHANGED <<quizVars, startVars, signupVars, contribVars>>

\* lines 134-155, called from the search box (line 335)
handleSearch(term) ==
  /\ FiltersShown
  /\ performanceMetrics.interactions < MaxInteractions
  /\ BlogRender(blogPostsRef, blogPosts, selectedCategory, term, isLoading,
                [performanceMetrics EXCEPT !.searchOperations = @ + 1,
                                           !.interactions = @ + 1])
  /\ blogEvent' = "search"
  /\ UNCHANGED <<blogPostsData, blogMounted, loadTimer>>
  /\ UNCHANGED <<quizVars, startVars, signupVars, contribVars>>

\* lines 158-176, called from a category button (lines 346-347)
handleCategorySelect(category) ==
  /\ FiltersShown
  /\ performanceMetrics.interactions < MaxInteractions
  /\ BlogRender(blogPostsRef, blogPosts, category, searchTerm, isLoading,
                [performanceMetrics EXCEPT !.interactions = @ + 1])
  /\ blogEvent' = "category"
  /\ UNCHANGED <<blogPostsData, blogMounted, loadTimer>>
  /\ UNCHANGED <<quizVars, startVars, signupVars, contribVars>>

\* A "Read More" control exists for every featured post (lines 255-316) and
\* for every post of the displayed list (lines 379-449).
ReadMoreShown(post) ==
  /\ blogMounted /\ ~isLoading
  /\ \/ post \in Range(filteredPosts)
     \/ post \in Range(blogPosts) /\ post.featured

\* variant of lines 189-200 whose updater spreads the initial counters
\* instead of prev
trackPostInteractionFromInitial(post) ==
  /\ ReadMoreShown(post)
  /\ performanceMetrics.interactions < MaxInteractions
  /\ BlogRender(blogPostsRef, blogPosts, selectedCategory, searchTerm, isLoading,
                [initialMetrics EXCEPT !.interactions = performanceMetrics.interactions + 1])
  /\ blogEvent' = "open"
  /\ UNCHANGED <<blogPostsData, blogMounted, loadTimer>>
  /\ UNCHANGED <<quizVars, startVars, signupVars, contribVars>>

\* lines 189-200
trackPostInteraction(post) ==
  /\ ReadMoreShown(post)
  /\ performanceMetrics.interactions < MaxInteractions
  /\ BlogRender(blogPostsRef, blogPosts, selectedCategory, searchTerm, isLoading,
                [performanceMetrics EXCEPT !.interactions = @ + 1])
  /\ blogEvent' = "open"
  /\ UNCHANGED <<blogPostsData, blogMounted, loadTimer>>
  /\ UNCHANGED <<quizVars, startVars, signupVars, contribVars>>

\* the Subscribe button, lines 469-477
newsletterClick ==
  /\ FiltersShown
  /\ performanceMetrics.interactions < MaxInteractions
  /\ BlogRender(blogPostsRef, blogPosts, selectedCategory, searchTerm, isLoading,
                [performanceMetrics EXCEPT !.interactions = @ + 1])
  /\ blogEvent' = "newsletter"
  /\ UNCHANGED <<blogPostsData, blogMounted, loadTimer>>
  /\ UNCHANGED <<quizVars, startVars, signupVars, contribVars>>

\* variant of the cleanup of lines 90-100 without clearTimeout
timerAfterCleanupNoClear(timer) ==
  timer

\* line 91: clearTimeout(loadTimer) cancels a timer that has not fired
timerAfterCleanup(timer) ==
  IF timer = "pending" THEN "cleared" ELSE timer

\* the cleanup of the mount effect, lines 90-100: clearTimeout(loadTimer)
BlogUnmount ==
  /\ blogMounted
  /\ blogMounted' = FALSE
  /\ loadTimer' = timerAfterCleanup(loadTimer)
  /\ blogEvent' = "unmount"
  /\ UNCHANGED <<blogPostsData, selectedCategory, searchTerm, blogPosts,
                 blogPostsRef, isLoading, performanceMetrics, filteredPosts,
                 filterRuns>>
  /\ UNCHANGED <<quizVars, startVars, signupVars, contribVars>>

\* variant of the activation in which the counters live outside the
\* component and survive it
BlogRemountKeepingMetrics ==
  /\ ~blogMounted
  /\ blogMounted' = TRUE
  /\ loadTimer' = "pending"
  /\ selectedCategory' = "All"
  /\ searchTerm' = <<>>
  /\ blogPosts' = <<>>
  /\ blogPostsRef' = "initial"
  /\ isLoading' = TRUE
  /\ performanceMetrics' = performanceMetrics
  /\ filteredPosts' = pureFilterPosts(<<>>, "All", <<>>)
  /\ filterRuns' = 1
  /\ blogEvent' = "remount"
  /\ UNCHANGED blogPostsData
  /\ UNCHANGED <<quizVars, startVars, signupVars, contribVars>>

\* a later activation of the view: every hook starts from its initial value
BlogRemount ==
  /\ ~blogMounted
  /\ blogMounted' = TRUE
  /\ loadTimer' = "pending"
  /\ selectedCategory' = "All"
  /\ searchTerm' = <<>>
  /\ blogPosts' = <<>>
  /\ blogPostsRef' = "initial"
  /\ isLoading' = TRUE
  /\ performanceMetrics' = initialMetrics
  /\ filteredPosts' = pureFilterPosts(<<>>, "All", <<>>)
  /\ filterRuns' = 1
  /\ blogEvent' = "remount"
  /\ UNCHANGED blogPostsData
  /\ UNCHANGED <<quizVars, startVars, signupVars, contribVars>>

NextBlog ==
  \/ LoadTimerFires
  \/ \E term \in SearchTerms : handleSearch(term)
  \/ \E category \in Range(categories) : handleCategorySelect(category)
  \/ \E post \in PostPool : trackPostInteraction(post)
  \/ newsletterClick
  \/ BlogUnmount
  \/ BlogRemount

(***************************************************************************)
(* QuizStart: the topic carousel (QuizStart.jsx lines 14-35, 54-87).       *)
(***************************************************************************)
\* line 28
CARDS_PER_PAGE == 3

\* Array.prototype.slice(start, end): a negative index counts from the end,
\* both indices are clamped to the array, an empty range gives [].
jsSlice(arr, start, end) ==
  LET len == Len(arr)
      from == IF start < 0 THEN (IF len + start < 0 THEN 0 ELSE len + start)
              ELSE (IF start > len THEN len ELSE start)
      to == IF end < 0 THEN (IF len + end < 0 THEN 0 ELSE len + end)
            ELSE (IF end > len THEN len ELSE end)
  IN IF from >= to THEN <<>> ELSE SubSeq(arr, from + 1, to)

\* lines 23-26
allTopicsOf(tps) ==
  tps \o << [id |-> "all"] >>

\* line 29: Math.ceil(allTopics.length / CARDS_PER_PAGE)
totalTopicPagesOf(tps) ==
  (Len(allTopicsOf(tps)) + CARDS_PER_PAGE - 1) \div CARDS_PER_PAGE

\* variant of lines 30-33 whose slice ends one element late
displayedTopicsOfLateEnd(tps, page) ==
  jsSlice(allTopicsOf(tps), page * CARDS_PER_PAGE, (page + 1) * CARDS_PER_PAGE + 1)

\* lines 30-33
displayedTopicsOf(tps, page) ==
  jsSlice(allTopicsOf(tps), page * CARDS_PER_PAGE, (page + 1) * CARDS_PER_PAGE)

\* lines 54 and 83: the two buttons are rendered only with more than one page
navShown(tps) ==
  totalTopicPagesOf(tps) > 1

\* line 58
prevDisabled(page) ==
  page = 0

\* variant of line 84 comparing with the page count instead of the last index
nextDisabledAtCount(tps, page) ==
  page >= totalTopicPagesOf(tps)

\* line 84
nextDisabled(tps, page) ==
  page >= totalTopicPagesOf(tps) - 1

\* line 35
handleTopicNav(page, direction) ==
  page + direction

\* The topics prop: n topics with the ids "1" .. "n".
TopicsOfSize(n) ==
  [i \in 1..n |-> [id |-> ToString(i)]]

InitQuiz ==
  /\ topics \in { TopicsOfSize(n) : n \in 0..MaxTopics }
  /\ topicPage = 0
  /\ displayedTopics = displayedTopicsOf(topics, 0)
  /\ quizEvent = [kind |-> "mount", page |-> 0]

\* a click on the "Previous topics" button (lines 55-62); a disabled button
\* dispatches no click
clickPrev ==
  /\ navShown(topics)
  /\ topicPage' = IF prevDisabled(topicPage) THEN topicPage
                  ELSE handleTopicNav(topicPage, -1)
  /\ displayedTopics' = displayedTopicsOf(topics, topicPage')
  /\ quizEvent' = [kind |-> "prev", page |-> topicPage]
  /\ UNCHANGED topics
  /\ UNCHANGED <<blogVars, startVars, signupVars, contribVars>>

\* a click on the "Next topics" button (line 84)
clickNext ==
  /\ navShown(topics)
  /\ topicPage' = IF nextDisabled(topics, topicPage) THEN topicPage
                  ELSE handleTopicNav(topicPage, 1)
  /\ displayedTopics' = displayedTopicsOf(topics, topicPage')
  /\ quizEvent' = [kind |-> "next", page |-> topicPage]
  /\ UNCHANGED topics
  /\ UNCHANGED <<blogVars, startVars, signupVars, contribVars>>

\* the parent renders QuizStart with another topics prop (lines 4-5): the
\* state topicPage is kept, the derived values of lines 23-33 are recomputed
topicsChange(n) ==
  /\ n # Len(topics)
  /\ topics' = TopicsOfSize(n)
  /\ displayedTopics' = displayedTopicsOf(topics', topicPage)
  /\ quizEvent' = [kind |-> "topics", page |-> topicPage]
  /\ UNCHANGED topicPage
  /\ UNCHANGED <<blogVars, startVars, signupVars, contribVars>>

NextQuiz ==
  \/ clickPrev
  \/ clickNext
  \/ \E n \in 0..MaxTopics : topicsChange(n)

(***************************************************************************)
(* QuizStart: selections and the Start control (QuizStart.jsx lines 4-21,  *)
(* 37-46, 68-76, 95-104, 113-135, 149-159).                                *)
(***************************************************************************)
\* lines 16-21: the ids of the difficulty buttons
DifficultyIds == {"easy", "medium", "hard", "all"}

\* the ids a topic card can carry: "1" .. and "all" (lines 23-26)
TopicIds == { ToString(i) : i \in 1..MaxStartTopics } \cup {"all"}

\* variant of line 152 that looks at the topic only
startDisabledTopicOnly(topic, difficulty) ==
  topic = ""

\* line 152: disabled={!selectedTopic || !selectedDifficulty}
startDisabled(topic, difficulty) ==
  topic = "" \/ difficulty = ""

\* line 39: !selectedTopic || !selectedDifficulty
selectionMissing(topic, difficulty) ==
  topic = "" \/ difficulty = ""

\* variant of line 45 that passes no filter when both selections are "all"
startArgsAllAsNone(topic, difficulty, timed) ==
  IF topic = "all" /\ difficulty = "all"
  THEN <<"", "", timed>>
  ELSE <<topic, difficulty, timed>>

\* line 45: the arguments of onStartQuiz
startArgs(topic, difficulty, timed) ==
  <<topic, difficulty, timed>>

\* lines 12-13 and the props of lines 6-10 as the parent first passes them
InitStart ==
  /\ selectedTopic \in TopicIds \cup {""}
  /\ selectedDifficulty \in DifficultyIds \cup {""}
  /\ timedMode = FALSE
  /\ quizError = ""
  /\ onStartQuizCalls = 0
  /\ onStartQuizArgs = <<"", "", FALSE>>

\* the props before the parent has any selection
StartIdle ==
  /\ selectedTopic = ""
  /\ selectedDifficulty = ""
  /\ timedMode = FALSE
  /\ quizError = ""
  /\ onStartQuizCalls = 0
  /\ onStartQuizArgs = <<"", "", FALSE>>

\* a click or Enter on a displayed topic card (lines 68-76): the parent
\* stores the id and passes it back as selectedTopic
selectTopic(id) ==
  /\ \E i \in 1..Len(displayedTopics) : displayedTopics[i].id = id
  /\ selectedTopic' = id
  /\ quizEvent' = [kind |-> "topic", page |-> topicPage]
  /\ UNCHANGED <<topics, topicPage, displayedTopics>>
  /\ UNCHANGED <<selectedDifficulty, timedMode, quizError, onStartQuizCalls,
                 onStartQuizArgs>>
  /\ UNCHANGED <<blogVars, signupVars, contribVars>>

\* a click on a difficulty button (lines 95-104)
selectDifficulty(id) ==
  /\ selectedDifficulty' = id
  /\ quizEvent' = [kind |-> "difficulty", page |-> topicPage]
  /\ UNCHANGED <<topics, topicPage, displayedTopics>>
  /\ UNCHANGED <<selectedTopic, timedMode, quizError, onStartQuizCalls,
                 onStartQuizArgs>>
  /\ UNCHANGED <<blogVars, signupVars, contribVars>>

\* a change of the mode radio group (lines 113-135): the radio that is not
\* checked is chosen
selectMode(timed) ==
  /\ timed # timedMode
  /\ timedMode' = timed
  /\ quizEvent' = [kind |-> "mode", page |-> topicPage]
  /\ UNCHANGED <<topics, topicPage, displayedTopics>>
  /\ UNCHANGED <<selectedTopic, selectedDifficulty, quizError, onStartQuizCalls,
                 onStartQuizArgs>>
  /\ UNCHANGED <<blogVars, signupVars, contribVars>>

\* the parent renders QuizStart with both selections unset again (lines 6-9)
selectionReset ==
  /\ selectedTopic # "" \/ selectedDifficulty # ""
  /\ selectedTopic' = ""
  /\ selectedDifficulty' = ""
  /\ quizEvent' = [kind |-> "reset", page |-> topicPage]
  /\ UNCHANGED <<topics, topicPage, displayedTopics>>
  /\ UNCHANGED <<timedMode, quizError, onStartQuizCalls, onStartQuizArgs>>
  /\ UNCHANGED <<blogVars, signupVars, contribVars>>

\* a click on the Start button (lines 149-156) runs handleStartQuiz (lines
\* 37-46); a disabled button dispatches no click
handleStartQuiz ==
  /\ ~startDisabled(selectedTopic, selectedDifficulty)
  /\ onStartQuizCalls < MaxStarts
  /\ IF selectionMissing(selectedTopic, selectedDifficulty)
     THEN /\ quizError' = "Please choose both a topic and difficulty."
          /\ UNCHANGED <<onStartQuizCalls, onStartQuizArgs>>
     ELSE /\ quizError' = ""
          /\ onStartQuizCalls' = onStartQuizCalls + 1
          /\ onStartQuizArgs' = startArgs(selectedTopic, selectedDifficulty, timedMode)
  /\ quizEvent' = [kind |-> "start", page |-> topicPage]
  /\ UNCHANGED <<topics, topicPage, displayedTopics>>
  /\ UNCHANGED <<selectedTopic, selectedDifficulty, timedMode>>
  /\ UNCHANGED <<blogVars, signupVars, contribVars>>

NextQuizStart ==
  \/ clickPrev
  \/ clickNext
  \/ \E id \in TopicIds : selectTopic(id)
  \/ \E id \in DifficultyIds : selectDifficulty(id)
  \/ \E timed \in BOOLEAN : selectMode(timed)
  \/ selectionReset
  \/ handleStartQuiz

(***************************************************************************)
(* Signup: the password rules (Signup.jsx lines 29-47, 93-98).             *)
(***************************************************************************)
\* RegExp.prototype.test for a one-character class given as a set of codes
regexTest(class, str) ==
  \E i \in 1..Len(str) : str[i] \in class

\* variant of lines 39-45 with the length rule written as length > 8
checkPasswordRulesLongOnly(password) ==
  [length |-> Len(password) > 8,
   uppercase |-> regexTest(65..90, password),
   lowercase |-> regexTest(97..122, password),
   number |-> regexTest(48..57, password),
   specialChar |-> regexTest({33, 64, 35, 36, 37, 94, 38, 42}, password)]

\* variant of lines 39-45 with the uppercase class written as [A-z]
checkPasswordRulesWideUpper(password) ==
  [length |-> Len(password) >= 8,
   uppercase |-> regexTest(65..122, password),
   lowercase |-> regexTest(97..122, password),
   number |-> regexTest(48..57, password),
   specialChar |-> regexTest({33, 64, 35, 36, 37, 94, 38, 42}, password)]

\* lines 39-45: /[A-Z]/ is 65..90, /[a-z]/ is 97..122, /[0-9]/ is 48..57,
\* /[!@#$%^&*]/ is the codes of ! @ # $ % ^ & *
checkPasswordRules(password) ==
  [length |-> Len(password) >= 8,
   uppercase |-> regexTest(65..90, password),
   lowercase |-> regexTest(97..122, password),
   number |-> regexTest(48..57, password),
   specialChar |-> regexTest({33, 64, 35, 36, 37, 94, 38, 42}, password)]

\* String.prototype.trimStart on ASCII text: leading white space (tab, line
\* feed, vertical tab, form feed, carriage return, space) is removed
RECURSIVE trimStart(_)
trimStart(str) ==
  IF str # <<>> /\ Head(str) \in {9, 10, 11, 12, 13, 32}
  THEN trimStart(Tail(str))
  ELSE str

\* String.prototype.startsWith(" ")
startsWithSpace(str) ==
  str # <<>> /\ Head(str) = 32

\* no authService.signup call in flight
noRequest ==
  [state |-> "none", name |-> <<>>, email |-> <<>>, password |-> <<>>]

\* no answer of the backend yet
noAnswer ==
  [kind |-> "none", message |-> "",
   response |-> [user |-> [id |-> 0, name |-> <<>>], token |-> ""]]

\* lines 25-36 and 47
InitSignup ==
  /\ formData = [firstName |-> <<>>, lastName |-> <<>>, email |-> <<>>,
                 password |-> <<>>, confirmPassword |-> <<>>, agreeToTerms |-> FALSE]
  /\ passwordChecks = checkPasswordRules(<<>>)
  /\ signupIsLoading = FALSE
  /\ signupError = ""
  /\ localStorage = << >>
  /\ location = "/signup"
  /\ signupRequest = noRequest
  /\ effectLog = << >>
  /\ signupAnswer = noAnswer
  /\ signupEvent = "mount"
  /\ signupMounted = TRUE
  /\ lateRequests = 0
  /\ googlePending = << >>
  /\ googleCalls = 0
  /\ googleDecoded = [raw |-> "", payload |-> ""]
  /\ lastAlert = ""

\* what a change event of the form leaves alone
formFrame ==
  /\ signupEvent' = "change"
  /\ UNCHANGED <<signupIsLoading, signupError, localStorage, location,
                 signupRequest, effectLog, signupAnswer>>
  /\ UNCHANGED <<teardownVars, googleVars>>
  /\ UNCHANGED <<blogVars, quizVars, startVars, contribVars>>

\* variant of lines 93-98 that stores the value as typed
handlePasswordChangeVerbatim(value) ==
  /\ location = "/signup"
  /\ formData' = [formData EXCEPT !.password = value]
  /\ passwordChecks' = checkPasswordRules(value)
  /\ formFrame

\* lines 93-98, followed by the render that computes passwordChecks (line 47)
handlePasswordChange(value) ==
  LET input == IF startsWithSpace(value) THEN trimStart(value) ELSE value
  IN /\ location = "/signup"
     /\ formData' = [formData EXCEPT !.password = input]
     /\ passwordChecks' = checkPasswordRules(input)
     /\ formFrame

\* Characters typed into the password field, one of each class and a space:
\* "A", "z", "0", "*", "-", " ".
PwAlphabet == {65, 122, 48, 42, 45, 32}

PwShort ==
  UNION { [1..n -> PwAlphabet] : n \in 0..MaxPwLen }

\* prefixes of six characters: none, "------", "zzzzzz"
PwPrefixes ==
  { <<>>, <<45, 45, 45, 45, 45, 45>>, <<122, 122, 122, 122, 122, 122>> }

\* "Abc1234!" and "abcdefgh"
PwAbc1234 == <<65, 98, 99, 49, 50, 51, 52, 33>>
PwAbcdefgh == <<97, 98, 99, 100, 101, 102, 103, 104>>

\* every printable ASCII character typed alone, " " (32) .. "~" (126)
PwSingles ==
  { <<c>> : c \in 32..126 }

\* Values of the password field delivered by a change event.
PwInputs ==
  { pre \o suf : pre \in PwPrefixes, suf \in PwShort }
    \cup PwSingles \cup {PwAbc1234, PwAbcdefgh}

NextSignup ==
  \E value \in PwInputs : handlePasswordChange(value)

(***************************************************************************)
(* Signup: the form and its submission (Signup.jsx lines 25-36, 52-102,    *)
(* 147-352).                                                               *)
(***************************************************************************)
\* String.prototype.trimEnd on ASCII text
RECURSIVE trimEnd(_)
trimEnd(str) ==
  IF str # <<>> /\ str[Len(str)] \in {9, 10, 11, 12, 13, 32}
  THEN trimEnd(SubSeq(str, 1, Len(str) - 1))
  ELSE str

\* String.prototype.trim
trim(str) ==
  trimEnd(trimStart(str))

\* line 69: `${formData.firstName} ${formData.lastName}`.trim()
signupName(data) ==
  trim(data.firstName \o <<32>> \o data.lastName)

\* variant of lines 56-64 that also stops a password failing one of the
\* five rules (isPasswordValid, line 48)
submitDecisionRequiringValidPassword(data) ==
  IF data.password # data.confirmPassword THEN "Passwords don't match!"
  ELSE IF ~data.agreeToTerms THEN "Please agree to the terms and conditions"
  ELSE IF \E rule \in DOMAIN checkPasswordRules(data.password) :
            ~checkPasswordRules(data.password)[rule]
       THEN "Password does not meet the requirements"
  ELSE ""

\* variant of lines 56-64 without the agreeToTerms check
submitDecisionNoTermsCheck(data) ==
  IF data.password # data.confirmPassword THEN "Passwords don't match!"
  ELSE ""

\* lines 56-64: the message of the validation that stops the submission, ""
\* when none does
submitDecision(data) ==
  IF data.password # data.confirmPassword THEN "Passwords don't match!"
  ELSE IF ~data.agreeToTerms THEN "Please agree to the terms and conditions"
  ELSE ""

\* variant of line 77 that always shows the fallback text
rejectionErrorFallbackOnly(message) ==
  "Signup failed. Please try again."

\* line 77: error.message || "Signup failed. Please try again."
rejectionError(message) ==
  IF message # "" THEN message ELSE "Signup failed. Please try again."

\* variant of lines 73-75 that navigates before the token is stored
successEffectsNavigateEarly ==
  <<"setItem(user)", "navigate(/)", "setItem(token)">>

\* lines 73-75: the calls of the success continuation, in order
successEffects ==
  <<"setItem(user)", "setItem(token)", "navigate(/)">>

\* variant of lines 76-80 with setIsLoading(false) at the end of the try
\* block instead of in finally
isLoadingAfterTryOnly(outcome) ==
  outcome = "rejected"

\* lines 78-80: finally { setIsLoading(false) }
isLoadingAfter(outcome) ==
  FALSE

\* JSON.stringify of the user object: the serialized text, told apart from
\* the object it was made from
JSONstringify(value) ==
  [json |-> value]

\* Storage.prototype.setItem
setItem(storage, key, value) ==
  [k \in (DOMAIN storage) \cup {key} |-> IF k = key THEN value ELSE storage[k]]

\* number of authService.signup calls made so far
signupCalls ==
  Cardinality({ i \in 1..Len(effectLog) : effectLog[i] = "authService.signup" })

\* variant of line 349 that never disables the submit button
submitDisabledNever(loading) ==
  FALSE

\* line 349: disabled={isLoading}
submitDisabled(loading) ==
  loading

\* lines 83-89: handleChange for a text input (firstName, lastName, email at
\* lines 159-204) or for a checkbox (type === "checkbox" ? checked : value)
handleChange(name, value) ==
  /\ location = "/signup"
  /\ formData' = [formData EXCEPT ![name] = value]
  /\ UNCHANGED passwordChecks
  /\ formFrame

\* lines 100-102: the confirmation is stored as typed
handleConfirmPasswordChange(value) ==
  /\ location = "/signup"
  /\ formData' = [formData EXCEPT !.confirmPassword = value]
  /\ UNCHANGED passwordChecks
  /\ formFrame

\* the required attributes of the five text inputs (lines 162, 180, 202, 223,
\* 305): the browser delivers no submit event while one of them is empty
requiredFilled(data) ==
  /\ data.firstName # <<>>
  /\ data.lastName # <<>>
  /\ data.email # <<>>
  /\ data.password # <<>>
  /\ data.confirmPassword # <<>>

\* lines 52-70 up to the await; the submit button is disabled while isLoading
\* (lines 346-352)
handleSubmit ==
  /\ location = "/signup"
  /\ ~submitDisabled(signupIsLoading)
  /\ requiredFilled(formData)
  /\ signupCalls < MaxSubmits
  /\ LET blocked == submitDecision(formData)
     IN IF blocked # ""
        THEN /\ signupError' = blocked
             /\ signupEvent' = "blocked"
             /\ UNCHANGED <<signupIsLoading, signupRequest, effectLog>>
        ELSE /\ signupError' = ""
             /\ signupIsLoading' = TRUE
             /\ signupRequest' = [state |-> "pending",
                                  name |-> signupName(formData),
                                  email |-> formData.email,
                                  password |-> formData.password]
             /\ effectLog' = Append(effectLog, "authService.signup")
             /\ signupEvent' = "sent"
  /\ UNCHANGED <<formData, passwordChecks, localStorage, location, signupAnswer>>
  /\ UNCHANGED <<teardownVars, googleVars>>
  /\ UNCHANGED <<blogVars, quizVars, startVars, contribVars>>

\* storage after the setItem calls among the given effects (lines 73-74)
storageAfter(storage, effects, response) ==
  LET withUser == IF \E i \in 1..Len(effects) : effects[i] = "setItem(user)"
                  THEN setItem(storage, "user", JSONstringify(response.user))
                  ELSE storage
  IN IF \E i \in 1..Len(effects) : effects[i] = "setItem(token)"
     THEN setItem(withUser, "token", response.token)
     ELSE withUser

\* lines 70-75 and 78-80: the signup promise resolves
signupResolves(response) ==
  /\ signupRequest.state = "pending"
  /\ localStorage' = storageAfter(localStorage, successEffects, response)
  /\ effectLog' = effectLog \o successEffects
  /\ location' = "/"
  /\ signupIsLoading' = isLoadingAfter("resolved")
  /\ signupRequest' = noRequest
  /\ signupAnswer' = [kind |-> "resolved", message |-> "", response |-> response]
  /\ signupEvent' = "resolved"
  /\ signupMounted' = FALSE
  /\ UNCHANGED <<formData, passwordChecks, signupError, lateRequests, googleVars>>
  /\ UNCHANGED <<blogVars, quizVars, startVars, contribVars>>

\* lines 76-80: the signup promise rejects with an error carrying message
signupRejects(message) ==
  /\ signupRequest.state = "pending"
  /\ signupError' = rejectionError(message)
  /\ signupIsLoading' = isLoadingAfter("rejected")
  /\ signupRequest' = noRequest
  /\ signupAnswer' = [noAnswer EXCEPT !.kind = "rejected", !.message = message]
  /\ signupEvent' = "rejected"
  /\ UNCHANGED <<formData, passwordChecks, localStorage, location, effectLog>>
  /\ UNCHANGED <<teardownVars, googleVars>>
  /\ UNCHANGED <<blogVars, quizVars, startVars, contribVars>>

\* Text typed into firstName, lastName and email: "", "Ada" / "Lovelace" /
\* "a@b" cut to one character each, and a blank first name
FirstNames == { <<>>, <<65>>, <<32>> }
LastNames == { <<>>, <<76>> }
Emails == { <<>>, <<97, 64, 98>> }

\* Text typed into the two password fields: "", "a", " a"
FormPasswords == { <<>>, <<97>>, <<32, 97>> }

\* What the backend answers to a signup request
SignupTokens == { "token-1", "token-2" }
SignupUsers ==
  { [id |-> 1, name |-> <<65, 32, 76>>], [id |-> 2, name |-> <<76>>] }
SignupResponses ==
  [user : SignupUsers, token : SignupTokens]
RejectMessages == { "Email already in use", "" }

NextSignupForm ==
  \/ \E value \in FirstNames : handleChange("firstName", value)
  \/ \E value \in LastNames : handleChange("lastName", value)
  \/ \E value \in Emails : handleChange("email", value)
  \/ \E checked \in BOOLEAN : handleChange("agreeToTerms", checked)
  \/ \E value \in FormPasswords : handlePasswordChange(value)
  \/ \E value \in FormPasswords : handleConfirmPasswordChange(value)
  \/ handleSubmit
  \/ \E response \in SignupResponses : signupResolves(response)
  \/ \E message \in RejectMessages : signupRejects(message)

\* variant of the teardown in which the pending signup call is cancelled
requestsLeftAtTeardownCancelled(request) ==
  0

\* lines 52-81: nothing cancels the authService.signup call when the view
\* goes away, a pending call stays in flight
requestsLeftAtTeardown(request) ==
  IF request.state = "pending" THEN 1 ELSE 0

\* a click on "Back to home" (lines 130-133) or "Sign in" (lines 357-359):
\* the router shows another route and Signup is torn down
leaveSignup(route) ==
  /\ signupMounted
  /\ location = "/signup"
  /\ signupMounted' = FALSE
  /\ location' = route
  /\ lateRequests' = lateRequests + requestsLeftAtTeardown(signupRequest)
  /\ signupRequest' = noRequest
  /\ signupEvent' = "leave"
  /\ UNCHANGED <<formData, passwordChecks, signupIsLoading, signupError,
                 localStorage, effectLog, signupAnswer, googleVars>>
  /\ UNCHANGED <<blogVars, quizVars, startVars, contribVars>>

\* the router shows /signup again: a new instance with the initial state of
\* lines 23-36
openSignup ==
  /\ ~signupMounted
  /\ signupMounted' = TRUE
  /\ location' = "/signup"
  /\ formData' = [firstName |-> <<>>, lastName |-> <<>>, email |-> <<>>,
                  password |-> <<>>, confirmPassword |-> <<>>,
                  agreeToTerms |-> FALSE]
  /\ passwordChecks' = checkPasswordRules(<<>>)
  /\ signupIsLoading' = FALSE
  /\ signupError' = ""
  /\ signupRequest' = noRequest
  /\ signupEvent' = "remount"
  /\ UNCHANGED <<localStorage, effectLog, signupAnswer, lateRequests, googleVars>>
  /\ UNCHANGED <<blogVars, quizVars, startVars, contribVars>>

\* lines 70-75 and 78-80 for a call whose instance was torn down: the
\* continuation runs all the same; navigate("/") tears down an instance
\* mounted meanwhile, whose own pending call stays in flight
lateSignupResolves(response) ==
  /\ lateRequests > 0
  /\ localStorage' = storageAfter(localStorage, successEffects, response)
  /\ effectLog' = (effectLog \o successEffects) \o <<"late setIsLoading(false)">>
  /\ location' = "/"
  /\ signupMounted' = FALSE
  /\ lateRequests' = (lateRequests - 1) + requestsLeftAtTeardown(signupRequest)
  /\ signupRequest' = noRequest
  /\ signupAnswer' = [kind |-> "resolved", message |-> "", response |-> response]
  /\ signupEvent' = "lateResolved"
  /\ UNCHANGED <<formData, passwordChecks, signupIsLoading, signupError, googleVars>>
  /\ UNCHANGED <<blogVars, quizVars, startVars, contribVars>>

\* lines 76-80 for a call whose instance was torn down: setError and
\* setIsLoading(false) are called on that instance; the state of an instance
\* mounted meanwhile is its own
lateSignupRejects(message) ==
  /\ lateRequests > 0
  /\ lateRequests' = lateRequests - 1
  /\ effectLog' = effectLog \o <<"late setError", "late setIsLoading(false)">>
  /\ signupAnswer' = [noAnswer EXCEPT !.kind = "rejected", !.message = message]
  /\ signupEvent' = "lateRejected"
  /\ UNCHANGED <<formData, passwordChecks, signupIsLoading, signupError,
                 localStorage, location, signupRequest, signupMounted, googleVars>>
  /\ UNCHANGED <<blogVars, quizVars, startVars, contribVars>>

\* the routes the links of the view lead to
LeaveRoutes == { "/", "/login" }

\* the backend answers every request: the promise of authService.signup
\* settles
signupSettles ==
  \/ \E response \in SignupResponses : signupResolves(response)
  \/ \E message \in RejectMessages : signupRejects(message)

(***************************************************************************)
(* Contribute: the repository statistics (part_000 lines 53-90).           *)
(***************************************************************************)
\* `field || 0` on a field of the parsed body: an absent field is undefined
\* and 0 is falsy, both give 0
orZero(field) ==
  IF field.present /\ field.value # 0 THEN field.value ELSE 0

\* variant of lines 77-82 with issues read from forks_count
statsFromDataIssuesFromForks(data) ==
  [stars |-> orZero(data.stargazers_count),
   forks |-> orZero(data.forks_count),
   issues |-> orZero(data.forks_count),
   contributors |-> 0]

\* lines 77-82: the object handed to setRepoStats
statsFromData(data) ==
  [stars |-> orZero(data.stargazers_count),
   forks |-> orZero(data.forks_count),
   issues |-> orZero(data.open_issues_count),
   contributors |-> 0]

\* a numeric field of the response body, absent or carrying a count
StatFields ==
  { [present |-> FALSE, value |-> 0] }
    \cup { [present |-> TRUE, value |-> v] : v \in 0..MaxStat }

StatsBodies ==
  [stargazers_count : StatFields, forks_count : StatFields,
   open_issues_count : StatFields]

emptyBody ==
  [stargazers_count |-> [present |-> FALSE, value |-> 0],
   forks_count |-> [present |-> FALSE, value |-> 0],
   open_issues_count |-> [present |-> FALSE, value |-> 0]]

\* lines 53-58 and 60-73, 89: the state after the mount effect has issued the
\* request
InitContribute ==
  /\ repoStats = [stars |-> 0, forks |-> 0, issues |-> 0, contributors |-> 0]
  /\ statsFetch = "fetching"
  /\ statsResponse = [outcome |-> "pending", ok |-> FALSE, data |-> emptyBody]
  /\ contributeMounted = TRUE
  /\ statsLateUpdate = FALSE

\* lines 66-73 and 84-86: fetch rejects (network failure); the catch block logs
fetchRejects ==
  /\ statsFetch = "fetching"
  /\ statsFetch' = "done"
  /\ statsResponse' = [outcome |-> "fetchRejected", ok |-> FALSE, data |-> emptyBody]
  /\ UNCHANGED <<repoStats, contributeMounted, statsLateUpdate>>
  /\ UNCHANGED <<blogVars, quizVars, startVars, signupVars>>

\* lines 66-74: fetch resolves with a response whose body will parse to data;
\* a response that is not ok ends the function
fetchResolves(ok, data) ==
  /\ statsFetch = "fetching"
  /\ statsFetch' = IF ok THEN "parsing" ELSE "done"
  /\ statsResponse' = [outcome |-> "response", ok |-> ok, data |-> data]
  /\ UNCHANGED <<repoStats, contributeMounted, statsLateUpdate>>
  /\ UNCHANGED <<blogVars, quizVars, startVars, signupVars>>

\* lines 75 and 84-86: response.json() rejects (the body is not JSON)
jsonRejects ==
  /\ statsFetch = "parsing"
  /\ statsFetch' = "done"
  /\ statsResponse' = [statsResponse EXCEPT !.outcome = "jsonRejected"]
  /\ UNCHANGED <<repoStats, contributeMounted, statsLateUpdate>>
  /\ UNCHANGED <<blogVars, quizVars, startVars, signupVars>>

\* lines 75-82: response.json() resolves and setRepoStats runs
jsonResolves ==
  /\ statsFetch = "parsing"
  /\ statsFetch' = "done"
  /\ statsResponse' = [statsResponse EXCEPT !.outcome = "parsed"]
  /\ repoStats' = statsFromData(statsResponse.data)
  /\ statsLateUpdate' = ~contributeMounted
  /\ UNCHANGED contributeMounted
  /\ UNCHANGED <<blogVars, quizVars, startVars, signupVars>>

\* variant of the teardown with an AbortController: the pending request is
\* aborted and fetchRepoStats ends in its catch block
statsFetchAfterUnmountAborted(stage) ==
  "done"

\* lines 60-90: the mount effect returns no cleanup, the request goes on
statsFetchAfterUnmount(stage) ==
  stage

\* the Contribute view is torn down
ContributeUnmount ==
  /\ contributeMounted
  /\ contributeMounted' = FALSE
  /\ statsFetch' = statsFetchAfterUnmount(statsFetch)
  /\ UNCHANGED <<repoStats, statsResponse, statsLateUpdate>>
  /\ UNCHANGED <<blogVars, quizVars, startVars, signupVars>>

NextContribute ==
  \/ fetchRejects
  \/ \E ok \in BOOLEAN, data \in StatsBodies : fetchResolves(ok, data)
  \/ jsonRejects
  \/ jsonResolves
  \/ ContributeUnmount

(***************************************************************************)
(* Signup: the Google path (Signup.jsx lines 105-124, 368-376).            *)
(***************************************************************************)
\* What GoogleLogin hands to onSuccess: the raw credential and the payload
\* it decodes to; "undecodable" stands for a credential jwtDecode rejects
GoogleRaws == { "jwt-1", "jwt-2" }
GooglePayloads == { "alice@example.com", "bob@example.com" }
GoogleCredentials ==
  [raw : GoogleRaws, payload : GooglePayloads \cup {"undecodable"}]

\* variant of line 111 that sends the decoded payload to the backend
googleLoginArgDecoded(credential) ==
  credential.payload

\* line 111: authService.googleLogin(credentialResponse.credential)
googleLoginArg(credential) ==
  credential.raw

\* removal of the i-th element of a sequence
removeAt(seq, i) ==
  SubSeq(seq, 1, i - 1) \o SubSeq(seq, i + 1, Len(seq))

\* lines 105-111 up to the await, and lines 115-118 when jwtDecode throws
handleGoogleSuccess(credential) ==
  /\ signupMounted
  /\ googleCalls < MaxGoogleCalls
  /\ googleDecoded' = credential
  /\ IF credential.payload = "undecodable"
     THEN /\ lastAlert' = "Google signup failed. Please try again."
          /\ UNCHANGED <<googlePending, googleCalls>>
     ELSE /\ googlePending' = Append(googlePending, googleLoginArg(credential))
          /\ googleCalls' = googleCalls + 1
          /\ UNCHANGED lastAlert
  /\ signupEvent' = "google"
  /\ UNCHANGED <<formData, passwordChecks, signupIsLoading, signupError,
                 localStorage, location, signupRequest, effectLog, signupAnswer,
                 teardownVars>>
  /\ UNCHANGED <<blogVars, quizVars, startVars, contribVars>>

\* variant of lines 113-114 that stores a session as handleSubmit does
googleResolvesStoringSession(i) ==
  /\ i <= Len(googlePending)
  /\ googlePending' = removeAt(googlePending, i)
  /\ lastAlert' = "Signed up successfully with Google!"
  /\ localStorage' = setItem(localStorage, "token", googlePending[i])
  /\ signupEvent' = "googleResolved"
  /\ UNCHANGED <<googleCalls, googleDecoded>>
  /\ UNCHANGED <<formData, passwordChecks, signupIsLoading, signupError,
                 location, signupRequest, effectLog, signupAnswer,
                 teardownVars>>
  /\ UNCHANGED <<blogVars, quizVars, startVars, contribVars>>

\* lines 111-114: the i-th pending googleLogin call resolves
googleResolves(i) ==
  /\ i <= Len(googlePending)
  /\ googlePending' = removeAt(googlePending, i)
  /\ lastAlert' = "Signed up successfully with Google!"
  /\ signupEvent' = "googleResolved"
  /\ UNCHANGED <<googleCalls, googleDecoded>>
  /\ UNCHANGED <<formData, passwordChecks, signupIsLoading, signupError,
                 localStorage, location, signupRequest, effectLog, signupAnswer,
                 teardownVars>>
  /\ UNCHANGED <<blogVars, quizVars, startVars, contribVars>>

\* lines 115-118: the i-th pending googleLogin call rejects
googleRejects(i) ==
  /\ i <= Len(googlePending)
  /\ googlePending' = removeAt(googlePending, i)
  /\ lastAlert' = "Google signup failed. Please try again."
  /\ signupEvent' = "googleRejected"
  /\ UNCHANGED <<googleCalls, googleDecoded>>
  /\ UNCHANGED <<formData, passwordChecks, signupIsLoading, signupError,
                 localStorage, location, signupRequest, effectLog, signupAnswer,
                 teardownVars>>
  /\ UNCHANGED <<blogVars, quizVars, startVars, contribVars>>

\* the response bodies used when the two views are torn down: none of the
\* fields, and 1 star with 0 forks and MaxStat open issues
TeardownBodies ==
  { emptyBody,
    [stargazers_count |-> [present |-> TRUE, value |-> 1],
     forks_count |-> [present |-> TRUE, value |-> 0],
     open_issues_count |-> [present |-> TRUE, value |-> MaxStat]] }

\* the answers of the signup backend used when the views are torn down
TeardownResponses ==
  { [user |-> [id |-> 1, name |-> <<65, 32, 65>>], token |-> "token-1"] }
TeardownMessages == { "Email already in use" }

\* Signup and Contribute with their teardown: both views have a request that
\* outlives them
NextTeardown ==
  \/ \E name \in {"firstName", "lastName"} : handleChange(name, <<65>>)
  \/ handleChange("email", <<97, 64, 98>>)
  \/ handleChange("agreeToTerms", TRUE)
  \/ handlePasswordChange(<<97>>)
  \/ handleConfirmPasswordChange(<<97>>)
  \/ handleSubmit
  \/ \E response \in TeardownResponses : signupResolves(response)
  \/ \E message \in TeardownMessages : signupRejects(message)
  \/ \E route \in LeaveRoutes : leaveSignup(route)
  \/ openSignup
  \/ \E response \in TeardownResponses : lateSignupResolves(response)
  \/ \E message \in TeardownMessages : lateSignupRejects(message)
  \/ fetchRejects
  \/ \E ok \in BOOLEAN, data \in TeardownBodies : fetchResolves(ok, data)
  \/ jsonRejects
  \/ jsonResolves
  \/ ContributeUnmount

\* lines 121-124: GoogleLogin reports that the Google dialog failed
handleGoogleError ==
  /\ signupMounted
  /\ lastAlert' = "Google login failed. Try again."
  /\ signupEvent' = "googleError"
  /\ UNCHANGED <<googlePending, googleCalls, googleDecoded>>
  /\ UNCHANGED <<formData, passwordChecks, signupIsLoading, signupError,
                 localStorage, location, signupRequest, effectLog, signupAnswer,
                 teardownVars>>
  /\ UNCHANGED <<blogVars, quizVars, startVars, contribVars>>

\* the form together with the Google button below it
NextSignupGoogle ==
  \/ \E name \in {"firstName", "lastName"} : handleChange(name, <<65>>)
  \/ handleChange("email", <<97, 64, 98>>)
  \/ \E checked \in BOOLEAN : handleChange("agreeToTerms", checked)
  \/ \E value \in {<<97>>, <<98>>} : handlePasswordChange(value)
  \/ \E value \in {<<97>>, <<98>>} : handleConfirmPasswordChange(value)
  \/ handleSubmit
  \/ \E response \in TeardownResponses : signupResolves(response)
  \/ \E message \in TeardownMessages : signupRejects(message)
  \/ \E credential \in GoogleCredentials : handleGoogleSuccess(credential)
  \/ \E i \in 1..MaxGoogleCalls : googleResolves(i)
  \/ \E i \in 1..MaxGoogleCalls : googleRejects(i)
  \/ handleGoogleError

(***************************************************************************)
(* Specifications: each view runs on its own; the other views stay as      *)
(* constructed.                                                            *)
(***************************************************************************)
BlogIdle ==
  /\ blogPostsData = <<>>
  /\ BlogFresh

Init == InitBlog /\ InitQuiz /\ InitStart /\ InitSignup /\ InitContribute

InitBlogOnly == InitBlog /\ topics = <<>> /\ topicPage = 0
                /\ displayedTopics = displayedTopicsOf(<<>>, 0)
                /\ quizEvent = [kind |-> "mount", page |-> 0]
                /\ StartIdle /\ InitSignup /\ InitContribute

InitQuizOnly == BlogIdle /\ InitQuiz /\ StartIdle /\ InitSignup /\ InitContribute

InitSignupOnly == BlogIdle /\ topics = <<>> /\ topicPage = 0
                  /\ displayedTopics = displayedTopicsOf(<<>>, 0)
                  /\ quizEvent = [kind |-> "mount", page |-> 0]
                  /\ StartIdle /\ InitSignup /\ InitContribute

InitContributeOnly == BlogIdle /\ topics = <<>> /\ topicPage = 0
                      /\ displayedTopics = displayedTopicsOf(<<>>, 0)
                      /\ quizEvent = [kind |-> "mount", page |-> 0]
                      /\ StartIdle /\ InitSignup /\ InitContribute

InitQuizStartOnly == BlogIdle
                     /\ topics \in { TopicsOfSize(n) : n \in 0..MaxStartTopics }
                     /\ topicPage = 0
                     /\ displayedTopics = displayedTopicsOf(topics, 0)
                     /\ quizEvent = [kind |-> "mount", page |-> 0]
                     /\ InitStart /\ InitSignup /\ InitContribute

SpecBlog == InitBlogOnly /\ [][NextBlog]_vars
SpecQuiz == InitQuizOnly /\ [][NextQuiz]_vars
SpecQuizStart == InitQuizStartOnly /\ [][NextQuizStart]_vars
SpecSignup == InitSignupOnly /\ [][NextSignup]_vars
SpecSignupForm == InitSignupOnly /\ [][NextSignupForm]_vars
SpecSignupFormFair == SpecSignupForm /\ WF_vars(signupSettles)
SpecContribute == InitContributeOnly /\ [][NextContribute]_vars
SpecTeardown == InitContributeOnly /\ [][NextTeardown]_vars
SpecSignupGoogle == InitSignupOnly /\ [][NextSignupGoogle]_vars

(***************************************************************************)
(* Blog: properties of the derived view.                                   *)
(***************************************************************************)
categoryAccepts(post) ==
  selectedCategory = "All" \/ post.category = selectedCategory

\* C1: in every reachable state of the Blog view the displayed list
\* filteredPosts is the filter applied to the current blogPosts,
\* selectedCategory and searchTerm, and all its posts are posts of blogPosts.
C1_ViewIsFilterOfCurrentState ==
  /\ filteredPosts = pureFilterPosts(blogPosts, selectedCategory, searchTerm)
  /\ Range(filteredPosts) \subseteq Range(blogPosts)

\* a list narrowed by a search and a category, seen after an item was opened
C1_Witness ==
  /\ blogEvent = "open"
  /\ searchTerm # <<>>
  /\ selectedCategory # "All"
  /\ filteredPosts # <<>>
  /\ Len(filteredPosts) < Len(blogPosts)

\* C2: with a category other than "All" every post of the result has exactly
\* that category, and with an empty search text the result is exactly the
\* posts of blogPosts whose category is the selected one (all of them for
\* "All").
C2_CategoryExact ==
  /\ selectedCategory # "All" =>
       \A i \in 1..Len(filteredPosts) : filteredPosts[i].category = selectedCategory
  /\ searchTerm = <<>> => filteredPosts = SelectSeq(blogPosts, categoryAccepts)

\* "Sorting" selected with an empty search over posts of the categories
\* "Sorting", "sorting" and "Graphs"
C2_Witness ==
  /\ blogEvent = "category"
  /\ selectedCategory = "Sorting"
  /\ searchTerm = <<>>
  /\ {"Sorting", "sorting", "Graphs"} \subseteq { p.category : p \in Range(blogPosts) }
  /\ filteredPosts # <<>>
  /\ \A p \in Range(filteredPosts) : p.category = "Sorting"

\* two characters are the same letter up to case, or the same character
sameIgnoringCase(a, b) ==
  \/ a = b
  \/ /\ (a \in 65..90 \/ a \in 97..122)
     /\ (b \in 65..90 \/ b \in 97..122)
     /\ (a - b = 32 \/ b - a = 32)

containsIgnoringCase(text, term) ==
  \E off \in 0..(Len(text) - Len(term)) :
    \A k \in 1..Len(term) : sameIgnoringCase(text[off + k], term[k])

\* C3: for a non-empty search text, a post that passes the category check is
\* in the result iff the text occurs, ignoring case, in its title, in its
\* description or in one of its tags.
C3_SearchMatchesTitleDescriptionOrTag ==
  searchTerm # <<>> =>
    \A i \in 1..Len(blogPosts) :
      LET post == blogPosts[i]
      IN categoryAccepts(post) =>
           ( post \in Range(filteredPosts)
             <=> \/ containsIgnoringCase(post.title, searchTerm)
                 \/ containsIgnoringCase(post.description, searchTerm)
                 \/ \E t \in 1..Len(post.tags) :
                      containsIgnoringCase(post.tags[t], searchTerm) )

\* the search "AB" keeps a post and rejects another one of the category
C3_Witness ==
  /\ blogEvent = "search"
  /\ searchTerm = <<65, 66>>
  /\ filteredPosts # <<>>
  /\ \E p \in Range(blogPosts) : categoryAccepts(p) /\ p \notin Range(filteredPosts)

\* out is in to at strictly increasing positions
isSubsequence(out, in) ==
  \E f \in [1..Len(out) -> 1..Len(in)] :
    /\ \A i \in 1..Len(out) : out[i] = in[f[i]]
    /\ \A i, j \in 1..Len(out) : i < j => f[i] < f[j]

\* C4: the posts of the filtered result appear in the relative order they
\* have in blogPosts, and none appears more often than in blogPosts.
C4_OrderPreserved ==
  isSubsequence(filteredPosts, blogPosts)

\* a search keeps two different posts and drops a third
C4_Witness ==
  /\ searchTerm # <<>>
  /\ Len(filteredPosts) = 2
  /\ filteredPosts[1] # filteredPosts[2]
  /\ Len(blogPosts) = 3

(***************************************************************************)
(* QuizStart: properties of the carousel.                                  *)
(***************************************************************************)
\* C5: after any sequence of navigation events and changes of the topics
\* collection, 0 <= topicPage < ceil(allTopics.length / CARDS_PER_PAGE).
C5_PageIndexInRange ==
  0 <= topicPage /\ topicPage < totalTopicPagesOf(topics)

\* C6: with 7 items and page size 3 the pages have sizes [3,3,1], and page
\* index 5 shows the items of the last valid page (index 2).
C6_OutOfRangePageClampsToLast ==
  Len(allTopicsOf(topics)) = 7 =>
    /\ << Len(displayedTopicsOf(topics, 0)), Len(displayedTopicsOf(topics, 1)),
          Len(displayedTopicsOf(topics, 2)) >> = <<3, 3, 1>>
    /\ topicPage = 5 => displayedTopics = SubSeq(allTopicsOf(topics), 7, 7)

RECURSIVE concatPages(_, _)
concatPages(tps, n) ==
  IF n = 0 THEN <<>>
  ELSE concatPages(tps, n - 1) \o displayedTopicsOf(tps, n - 1)

\* C7: every page holds at most CARDS_PER_PAGE items, and the pages
\* 0 .. totalTopicPages-1 in order are the topics followed by the
\* 'All Topics' entry, nothing twice and nothing left out.
C7_PagesPartitionAllTopics ==
  /\ Len(displayedTopics) <= CARDS_PER_PAGE
  /\ \A p \in 0..(MaxTopics + 1) : Len(displayedTopicsOf(topics, p)) <= CARDS_PER_PAGE
  /\ concatPages(topics, totalTopicPagesOf(topics)) = topics \o << [id |-> "all"] >>

\* seven items, the last page of one item reached with the Next button
C7_Witness ==
  /\ Len(topics) = 6
  /\ quizEvent.kind = "next"
  /\ topicPage = 2
  /\ displayedTopics = << [id |-> "all"] >>

\* C8: a 'previous' at page 0 and a 'next' at the last page leave topicPage
\* unchanged, and a navigation from a valid page moves by at most one page
\* and stays in the valid range.
C8_NavigationStopsAtBoundaries ==
  LET last == totalTopicPagesOf(topics) - 1
  IN /\ (quizEvent.kind = "prev" /\ quizEvent.page = 0) => topicPage = 0
     /\ (quizEvent.kind = "next" /\ quizEvent.page = last) => topicPage = last
     /\ (quizEvent.kind \in {"prev", "next"} /\ quizEvent.page \in 0..last) =>
          /\ topicPage \in 0..last
          /\ topicPage - quizEvent.page \in {-1, 0, 1}

\* Next clicked on the last of several pages
C8_Witness ==
  /\ quizEvent.kind = "next"
  /\ totalTopicPagesOf(topics) > 1
  /\ quizEvent.page = totalTopicPagesOf(topics) - 1
  /\ topicPage = quizEvent.page

(***************************************************************************)
(* Signup: properties of the password rules.                               *)
(***************************************************************************)
\* "A" .. "Z"
UpperLetters ==
  {65, 66, 67, 68, 69, 70, 71, 72, 73, 74, 75, 76, 77,
   78, 79, 80, 81, 82, 83, 84, 85, 86, 87, 88, 89, 90}
\* "a" .. "z"
LowerLetters ==
  {97, 98, 99, 100, 101, 102, 103, 104, 105, 106, 107, 108, 109,
   110, 111, 112, 113, 114, 115, 116, 117, 118, 119, 120, 121, 122}
\* "0" .. "9"
Digits ==
  {48, 49, 50, 51, 52, 53, 54, 55, 56, 57}
\* ! @ # $ % ^ & *
Specials ==
  {33, 64, 35, 36, 37, 94, 38, 42}

hasCharIn(str, chars) ==
  \E i \in 1..Len(str) : str[i] \in chars

\* C9: length is true iff the password has at least 8 characters, uppercase
\* iff it holds one of A-Z, lowercase iff one of a-z, number iff one of 0-9,
\* specialChar iff one of !@#$%^&*; "Abc1234!" makes all five true and
\* "abcdefgh" makes only length and lowercase true.
C9_PasswordRules ==
  LET pw == formData.password
  IN /\ passwordChecks.length <=> Len(pw) >= 8
     /\ passwordChecks.uppercase <=> hasCharIn(pw, UpperLetters)
     /\ passwordChecks.lowercase <=> hasCharIn(pw, LowerLetters)
     /\ passwordChecks.number <=> hasCharIn(pw, Digits)
     /\ passwordChecks.specialChar <=> hasCharIn(pw, Specials)
     /\ pw = PwAbc1234 =>
          passwordChecks = [length |-> TRUE, uppercase |-> TRUE, lowercase |-> TRUE,
                            number |-> TRUE, specialChar |-> TRUE]
     /\ pw = PwAbcdefgh =>
          passwordChecks = [length |-> TRUE, uppercase |-> FALSE, lowercase |-> TRUE,
                            number |-> FALSE, specialChar |-> FALSE]

\* "Abc1234!" typed, all five flags true
C9_Witness ==
  /\ formData.password = PwAbc1234
  /\ \A k \in DOMAIN passwordChecks : passwordChecks[k]

charClass(c) ==
  IF c \in UpperLetters THEN "uppercase"
  ELSE IF c \in LowerLetters THEN "lowercase"
  ELSE IF c \in Digits THEN "number"
  ELSE IF c \in Specials THEN "specialChar"
  ELSE "other"

\* new is old with the character at position i replaced by one of another class
replacesOneChar(old, new, i) ==
  /\ Len(new) = Len(old)
  /\ i \in 1..Len(old)
  /\ charClass(new[i]) # charClass(old[i])
  /\ \A j \in 1..Len(old) : j # i => new[j] = old[j]

\* C10: replacing one character of the password by a character of another
\* class changes no flag other than those of the two classes involved, and
\* never the length flag.
C10_FlagsIndependent ==
  [][ \A i \in 1..Len(formData.password) :
        replacesOneChar(formData.password, formData.password', i) =>
          /\ passwordChecks'.length = passwordChecks.length
          /\ \A k \in {"uppercase", "lowercase", "number", "specialChar"} :
               k \notin { charClass(formData.password[i]), charClass(formData.password'[i]) }
                 => passwordChecks'[k] = passwordChecks[k]
    ]_vars

\* a password of at least 8 characters whose last character was typed over by
\* one of another class would lose one flag and gain another
C10_Witness ==
  LET pw == formData.password
  IN /\ passwordChecks.length
     /\ passwordChecks.uppercase /\ ~passwordChecks.number
     /\ \E new \in PwInputs :
          /\ replacesOneChar(pw, new, Len(pw))
          /\ ~checkPasswordRules(new).uppercase
          /\ checkPasswordRules(new).number

(***************************************************************************)
(* Signup: properties of the form submission.                              *)
(***************************************************************************)
\* a step of handleSubmit: the only handler that records "blocked" or "sent"
submitStep ==
  signupEvent' \in {"blocked", "sent"}

\* C11: whenever handleSubmit runs while the confirmation differs from the
\* password or agreeToTerms is unset, it sets a non-empty error message, makes
\* no authService.signup call, leaves isLoading false, writes nothing to
\* local storage and does not navigate.
C11_InvalidSubmitIsBlocked ==
  [][ (/\ submitStep
       /\ \/ formData.password # formData.confirmPassword
          \/ ~formData.agreeToTerms)
      => /\ signupError' # ""
         /\ effectLog' = effectLog
         /\ signupRequest' = signupRequest
         /\ signupRequest'.state = "none"
         /\ ~signupIsLoading'
         /\ localStorage' = localStorage
         /\ location' = location ]_vars

\* a submit with equal passwords was stopped because agreeToTerms is unset
C11_Witness ==
  /\ signupEvent = "blocked"
  /\ formData.password = formData.confirmPassword
  /\ ~formData.agreeToTerms
  /\ signupError = "Please agree to the terms and conditions"
  /\ effectLog = << >>

\* C12: when the authService.signup call rejects with a message, the error
\* state is exactly that message, the view stays on the form and neither the
\* 'user' nor the 'token' key is written to local storage.
C12_RejectionShowsBackendMessage ==
  [][ (signupEvent' = "rejected" /\ signupAnswer'.message # "")
      => /\ signupError' = signupAnswer'.message
         /\ location' = "/signup"
         /\ location' = location
         /\ localStorage' = localStorage
         /\ "user" \notin DOMAIN localStorage'
         /\ "token" \notin DOMAIN localStorage'
         /\ effectLog' = effectLog ]_vars

\* the backend rejected a signup with "Email already in use"
C12_Witness ==
  /\ signupEvent = "rejected"
  /\ signupAnswer.message = "Email already in use"
  /\ signupError = "Email already in use"
  /\ location = "/signup"

\* position of the first occurrence of an effect in the log, 0 when absent
firstIndexOf(effect) ==
  IF \E i \in 1..Len(effectLog) : effectLog[i] = effect
  THEN CHOOSE i \in 1..Len(effectLog) :
         /\ effectLog[i] = effect
         /\ \A j \in 1..(i - 1) : effectLog[j] # effect
  ELSE 0

\* C13: when the signup call resolves, the returned user is stored under
\* 'user' and the returned token under 'token', both before navigate("/") is
\* issued, and local storage is written by no other step of the form.
C13_StorageWrittenOnSuccessBeforeNavigate ==
  /\ [](\A i \in 1..Len(effectLog) :
          effectLog[i] = "navigate(/)"
            => /\ \E j \in 1..(i - 1) : effectLog[j] = "setItem(user)"
               /\ \E j \in 1..(i - 1) : effectLog[j] = "setItem(token)")
  /\ [][ /\ signupEvent' = "resolved"
            => /\ DOMAIN localStorage' = {"user", "token"}
               /\ localStorage'["user"] = JSONstringify(signupAnswer'.response.user)
               /\ localStorage'["token"] = signupAnswer'.response.token
               /\ location' = "/"
         /\ localStorage' # localStorage => signupEvent' = "resolved" ]_vars

\* a signup resolved: both keys are stored and the view navigated to "/"
C13_Witness ==
  /\ signupEvent = "resolved"
  /\ location = "/"
  /\ localStorage["token"] = "token-2"
  /\ firstIndexOf("setItem(user)") < firstIndexOf("navigate(/)")

\* C14: a submit stopped by validation never leaves isLoading true, and once
\* the backend call of a submit resolves or rejects isLoading is false again,
\* so that under a backend that answers every call isLoading always returns
\* to false.
C14_ViewStaysInteractive ==
  /\ [](signupEvent = "blocked" => ~signupIsLoading)
  /\ [](signupEvent \in {"resolved", "rejected"} => ~signupIsLoading)
  /\ (signupIsLoading ~> ~signupIsLoading)

\* a second call was rejected without a message and the button is enabled again
C14_Witness ==
  /\ signupEvent = "rejected"
  /\ signupCalls = 2
  /\ signupError = "Signup failed. Please try again."
  /\ ~signupIsLoading

(***************************************************************************)
(* Contribute: properties of the repository statistics.                    *)
(***************************************************************************)
\* the count a field of the body carries, 0 when the field is absent
fieldOrZero(field) ==
  IF field.present THEN field.value ELSE 0

\* C19: while the request is pending, and after it failed, threw or
\* returned a response that is not ok, stars, forks and issues are 0; after
\* an ok response was parsed each of them is the returned field, or 0 when
\* the field is absent.
C19_RepoStatsFromResponseOrZero ==
  /\ statsResponse.outcome # "parsed"
       => repoStats.stars = 0 /\ repoStats.forks = 0 /\ repoStats.issues = 0
  /\ statsResponse.outcome = "parsed"
       => /\ statsResponse.ok
          /\ repoStats.stars = fieldOrZero(statsResponse.data.stargazers_count)
          /\ repoStats.forks = fieldOrZero(statsResponse.data.forks_count)
          /\ repoStats.issues = fieldOrZero(statsResponse.data.open_issues_count)

\* an ok response with 2 stars, no forks_count and 1 open issue was parsed
C19_Witness ==
  /\ statsFetch = "done"
  /\ statsResponse.outcome = "parsed"
  /\ statsResponse.data.stargazers_count = [present |-> TRUE, value |-> 2]
  /\ ~statsResponse.data.forks_count.present
  /\ repoStats = [stars |-> 2, forks |-> 0, issues |-> 1, contributors |-> 0]

(***************************************************************************)
(* Blog: properties of the counters, the load and the memoised view.       *)
(***************************************************************************)
\* the three interaction counters of a metrics object
counters(metrics) ==
  <<metrics.searchOperations, metrics.filterOperations, metrics.interactions>>

\* C15: searchOperations, filterOperations and interactions are natural
\* numbers, and no step taken by a mounted Blog view (load, search, category
\* select, item open, newsletter click, unmount) lowers any of them.
C15_CountersNeverDecrease ==
  /\ [](\A i \in 1..3 : counters(performanceMetrics)[i] \in Nat)
  /\ [][ blogMounted
          => \A i \in 1..3 :
               counters(performanceMetrics')[i] >= counters(performanceMetrics)[i] ]_vars

\* after load, a search, an item open and a newsletter click
C15_Witness ==
  /\ blogEvent = "newsletter"
  /\ counters(performanceMetrics) = <<1, 2, 3>>

\* C16: a search event raises searchOperations by exactly one, an event that
\* changes the category raises filterOperations by exactly one, and an
\* item-open event raises interactions by exactly one.
C16_EventsIncrementTheirCounter ==
  [][ /\ blogEvent' = "search"
        => performanceMetrics'.searchOperations
             = performanceMetrics.searchOperations + 1
      /\ (blogEvent' = "category" /\ selectedCategory' # selectedCategory)
        => performanceMetrics'.filterOperations
             = performanceMetrics.filterOperations + 1
      /\ blogEvent' = "open"
        => performanceMetrics'.interactions
             = performanceMetrics.interactions + 1 ]_vars

\* the first event after the load changed the category away from "All"
C16_Witness ==
  /\ blogEvent = "category"
  /\ selectedCategory # "All"
  /\ counters(performanceMetrics) = <<0, 2, 1>>

\* C17: every activation of the Blog view, the first one and each later
\* one, starts with the three counters at 0, whatever they were when the
\* view was left.
C17_CountersResetOnMount ==
  /\ [](blogEvent \in {"mount", "remount"}
          => counters(performanceMetrics) = <<0, 0, 0>>)
  /\ [][ (~blogMounted /\ blogMounted')
          => counters(performanceMetrics') = <<0, 0, 0>> ]_vars

\* the view was activated again
C17_Witness ==
  /\ blogEvent = "remount"
  /\ blogMounted
  /\ isLoading
  /\ counters(performanceMetrics) = <<0, 0, 0>>

\* the posts are the loaded data and the loading flag is down
postsLoaded ==
  /\ blogPostsRef = "data"
  /\ blogPosts = blogPostsData
  /\ ~isLoading

\* C18 as stated: blogPosts and isLoading change exactly once in every
\* lifetime of the view, so a lifetime that has ended has seen the load.
C18_ChangedOnceInEveryLifetime ==
  ~blogMounted => (loadTimer = "fired" /\ postsLoaded)

\* C18, amended: blogPosts and isLoading change at most once per lifetime,
\* together, in the step in which the load timer fires (from the empty list
\* to the loaded data, from true to false); they have changed exactly once
\* in every lifetime whose timer fired and not at all in a lifetime left
\* before that; no other event changes either of them.
C18_LoadedAtMostOnceThenReadOnly ==
  /\ [](loadTimer = "fired" => postsLoaded)
  /\ [](loadTimer # "fired"
          => blogPostsRef = "initial" /\ blogPosts = <<>> /\ isLoading)
  /\ [][ (/\ blogMounted
           /\ \/ blogPostsRef' # blogPostsRef
              \/ blogPosts' # blogPosts
              \/ isLoading' # isLoading)
          => /\ blogEvent' = "load"
             /\ loadTimer = "pending" /\ loadTimer' = "fired"
             /\ blogPostsRef = "initial" /\ blogPosts = <<>> /\ isLoading
             /\ blogPostsRef' = "data" /\ blogPosts' = blogPostsData
             /\ ~isLoading' ]_vars

\* a search that hides posts ran after the load and the collection is still
\* the loaded data
C18_Witness ==
  /\ blogEvent = "search"
  /\ loadTimer = "fired"
  /\ postsLoaded
  /\ Len(blogPosts) = 3
  /\ Len(filteredPosts) < 3

\* C20: within a lifetime the useMemo callback runs, and filteredPosts
\* changes, only in a step that changes the posts reference, the category
\* or the search term; item-open and newsletter events leave both alone.
C20_RecomputedOnlyOnDependencyChange ==
  [][ /\ (/\ blogMounted /\ blogMounted'
          /\ blogPostsRef' = blogPostsRef
          /\ selectedCategory' = selectedCategory
          /\ searchTerm' = searchTerm)
        => filterRuns' = filterRuns /\ filteredPosts' = filteredPosts
      /\ blogEvent' \in {"open", "newsletter"}
        => filterRuns' = filterRuns /\ filteredPosts' = filteredPosts ]_vars

\* two item-open events after the load: the callback ran at mount and at
\* load only
C20_Witness ==
  /\ blogEvent = "open"
  /\ filterRuns = 2
  /\ performanceMetrics.interactions = 2
  /\ filteredPosts # <<>>

(***************************************************************************)
(* QuizStart: properties of the Start control.                             *)
(***************************************************************************)
\* C21: a start with both a topic and a difficulty selected calls
\* onStartQuiz exactly once, with the selected topic, the selected
\* difficulty and timedMode as they are, also when both are "all"; no step
\* taken while a selection is unset calls onStartQuiz, and nothing but a
\* start calls it.
C21_StartPassesSelectionUnmodified ==
  [][ /\ (/\ quizEvent'.kind = "start"
          /\ selectedTopic # "" /\ selectedDifficulty # "")
        => /\ onStartQuizCalls' = onStartQuizCalls + 1
           /\ onStartQuizArgs' = <<selectedTopic, selectedDifficulty, timedMode>>
      /\ (selectedTopic = "" \/ selectedDifficulty = "")
        => /\ onStartQuizCalls' = onStartQuizCalls
           /\ onStartQuizArgs' = onStartQuizArgs
      /\ onStartQuizCalls' # onStartQuizCalls
        => quizEvent'.kind = "start" ]_vars

\* a timed quiz was started with topic "all" and difficulty "all"
C21_Witness ==
  /\ quizEvent.kind = "start"
  /\ onStartQuizCalls = 1
  /\ onStartQuizArgs = <<"all", "all", TRUE>>
  /\ quizError = ""

\* C28: the Start control is disabled exactly when selectedTopic or
\* selectedDifficulty is unset, which is exactly when handleStartQuiz would
\* set the error, and in every state reached by events of the view the
\* error is empty.
C28_StartErrorUnreachable ==
  /\ startDisabled(selectedTopic, selectedDifficulty)
       <=> (selectedTopic = "" \/ selectedDifficulty = "")
  /\ startDisabled(selectedTopic, selectedDifficulty)
       <=> selectionMissing(selectedTopic, selectedDifficulty)
  /\ quizError = ""

\* after a quiz was started the selections were unset again: the control
\* is disabled and no error is shown
C28_Witness ==
  /\ quizEvent.kind = "reset"
  /\ onStartQuizCalls = 1
  /\ startDisabled(selectedTopic, selectedDifficulty)
  /\ quizError = ""

(***************************************************************************)
(* Blog: properties of the teardown and of filterOperations.               *)
(***************************************************************************)
\* C26: an unmounted Blog view has no load timer set; a view unmounted
\* before its timer fired keeps blogPosts empty, isLoading true and
\* pageLoadTime unset, and no step taken while the view is unmounted
\* changes blogPosts, isLoading or pageLoadTime.
C26_LoadTimerCancelledAtTeardown ==
  /\ [](~blogMounted => loadTimer # "pending")
  /\ [](loadTimer = "cleared"
          => /\ ~blogMounted
             /\ blogPosts = <<>> /\ blogPostsRef = "initial" /\ isLoading
             /\ performanceMetrics.pageLoadTime = "null")
  /\ [][ (~blogMounted /\ ~blogMounted')
          => /\ blogPosts' = blogPosts /\ blogPostsRef' = blogPostsRef
             /\ isLoading' = isLoading
             /\ performanceMetrics'.pageLoadTime = performanceMetrics.pageLoadTime ]_vars

\* a view with posts to load was unmounted before the timer fired
C26_Witness ==
  /\ ~blogMounted
  /\ loadTimer = "cleared"
  /\ blogPostsData # <<>>
  /\ blogPosts = <<>>
  /\ isLoading

\* C27: the three counters are 0 while isLoading is true; the load alone
\* makes filterOperations 1; after it, every step of the lifetime raises
\* filterOperations by one if it changes selectedCategory or searchTerm and
\* leaves it alone otherwise, and a category event that keeps the category
\* raises interactions by one.
C27_FilterOperationsCountsInputChanges ==
  /\ [](isLoading => counters(performanceMetrics) = <<0, 0, 0>>)
  /\ [](blogEvent = "load" => counters(performanceMetrics) = <<0, 1, 0>>)
  /\ [][ (blogMounted /\ ~isLoading)
          => /\ performanceMetrics'.filterOperations
                  = IF \/ selectedCategory' # selectedCategory
                       \/ searchTerm' # searchTerm
                    THEN performanceMetrics.filterOperations + 1
                    ELSE performanceMetrics.filterOperations
             /\ (blogEvent' = "category" /\ selectedCategory' = selectedCategory)
                  => performanceMetrics'.interactions
                       = performanceMetrics.interactions + 1 ]_vars

\* the current category was selected again after a search changed the term
C27_Witness ==
  /\ blogEvent = "category"
  /\ searchTerm # <<>>
  /\ counters(performanceMetrics) = <<1, 2, 2>>

(***************************************************************************)
(* Signup: further properties of the form.                                 *)
(***************************************************************************)
\* C25: a submit with the password equal to the confirmation and
\* agreeToTerms set calls authService.signup with that password, whatever
\* the five flags of checkPasswordRules are.
C25_PasswordRulesAreAdvisory ==
  [][ (/\ submitStep
       /\ formData.password = formData.confirmPassword
       /\ formData.agreeToTerms)
      => /\ signupEvent' = "sent"
         /\ effectLog' = Append(effectLog, "authService.signup")
         /\ signupRequest'.state = "pending"
         /\ signupRequest'.password = formData.password
         /\ signupError' = "" ]_vars

\* the password "a", which fails four of the five rules, was sent
C25_Witness ==
  /\ signupEvent = "sent"
  /\ signupRequest.password = <<97>>
  /\ ~passwordChecks.length /\ ~passwordChecks.uppercase
  /\ ~passwordChecks.number /\ ~passwordChecks.specialChar

\* C29: the stored password never begins with a space; when the
\* confirmation begins with a space and the password is what
\* handlePasswordChange stores for the same text, the two differ and a
\* submit is stopped with the mismatch message, without a signup call.
C29_LeadingSpaceNeverStoredInPassword ==
  /\ [](~startsWithSpace(formData.password))
  /\ [](startsWithSpace(formData.confirmPassword)
          => formData.password # formData.confirmPassword)
  /\ [][ (/\ submitStep
           /\ startsWithSpace(formData.confirmPassword)
           /\ formData.password = trimStart(formData.confirmPassword))
          => /\ signupEvent' = "blocked"
             /\ signupError' = "Passwords don't match!"
             /\ effectLog' = effectLog ]_vars

\* " a" was typed into both fields and the submit was stopped
C29_Witness ==
  /\ signupEvent = "blocked"
  /\ formData.confirmPassword = <<32, 97>>
  /\ formData.password = <<97>>
  /\ formData.agreeToTerms
  /\ signupError = "Passwords don't match!"

(***************************************************************************)
(* Signup and Contribute: properties of the teardown.                      *)
(***************************************************************************)
\* C22: tearing down Signup leaves its pending signup call in flight and
\* tearing down Contribute leaves fetchRepoStats where it stands; when such
\* a call settles after the teardown its continuation runs and updates the
\* state of the torn-down view (setIsLoading for Signup, setRepoStats for
\* Contribute).
C22_RequestsOutliveTheirView ==
  /\ [][ (signupMounted /\ ~signupMounted' /\ signupEvent' = "leave")
          => lateRequests'
               = lateRequests + (IF signupRequest.state = "pending" THEN 1 ELSE 0) ]_vars
  /\ [][ (signupEvent' \in {"lateResolved", "lateRejected"}
           /\ effectLog' # effectLog)
          => /\ Len(effectLog') > Len(effectLog)
             /\ effectLog'[Len(effectLog')] = "late setIsLoading(false)" ]_vars
  /\ [][ (contributeMounted /\ ~contributeMounted')
          => statsFetch' = statsFetch /\ statsResponse' = statsResponse ]_vars
  /\ [][ (/\ ~contributeMounted
           /\ statsResponse.outcome # "parsed"
           /\ statsResponse'.outcome = "parsed")
          => /\ statsLateUpdate'
             /\ repoStats'.stars = fieldOrZero(statsResponse.data.stargazers_count)
             /\ repoStats'.issues = fieldOrZero(statsResponse.data.open_issues_count) ]_vars

\* both views were torn down with their request pending and both
\* continuations ran afterwards
C22_Witness ==
  /\ signupEvent = "lateRejected"
  /\ effectLog = <<"authService.signup", "late setError", "late setIsLoading(false)">>
  /\ ~contributeMounted
  /\ statsLateUpdate
  /\ repoStats.stars = 1

C23_GoogleCredentialPassedRaw ==
  /\ [][ (signupEvent' = "google" /\ googleDecoded'.payload \in GooglePayloads)
          => /\ googleCalls' = googleCalls + 1
             /\ googlePending' = Append(googlePending, googleDecoded'.raw)
             /\ lastAlert' = lastAlert ]_vars
  /\ [][ (signupEvent' = "google" /\ googleDecoded'.payload = "undecodable")
          => /\ googleCalls' = googleCalls
             /\ googlePending' = googlePending
             /\ lastAlert' = "Google signup failed. Please try again." ]_vars
  /\ [][ signupEvent' = "googleResolved"
          => lastAlert' = "Signed up successfully with Google!" ]_vars
  /\ [][ signupEvent' = "googleRejected"
          => lastAlert' = "Google signup failed. Please try again." ]_vars

\* two credentials with different payloads were handled and both raw
\* credentials are on their way to the backend
C23_Witness ==
  /\ signupEvent = "google"
  /\ googlePending = <<"jwt-1", "jwt-2">>
  /\ googleDecoded = [raw |-> "jwt-2", payload |-> "alice@example.com"]

\* C30: no step of the Google path (handleGoogleSuccess, the resolution of
\* googleLogin, its rejection, handleGoogleError) writes localStorage, changes formData, error
\* or isLoading, or navigates; the view stays where it was.
C30_GooglePathEstablishesNoSession ==
  [][ signupEvent' \in {"google", "googleResolved", "googleRejected", "googleError"}
      => /\ localStorage' = localStorage
         /\ formData' = formData
         /\ signupError' = signupError
         /\ signupIsLoading' = signupIsLoading
         /\ location' = location
         /\ effectLog' = effectLog ]_vars

\* googleLogin resolved while the form was half filled: the success alert
\* was shown, nothing is stored and the view is still the sign-up page
C30_Witness ==
  /\ signupEvent = "googleResolved"
  /\ lastAlert = "Signed up successfully with Google!"
  /\ DOMAIN localStorage = {}
  /\ location = "/signup"
  /\ formData.password = <<97>>
  /\ googleCalls = 1

====
